---- MODULE Spec2Model ----
(***************************************************************************)
(* A model of src/app.py: the crew of two agents (researcher,             *)
(* frontend_engineer) running research_task and reporting_task in          *)
(* sequence, and the tool FetchArxivPapersTool._run that the researcher    *)
(* may call.                                                               *)
(*                                                                         *)
(* What app.py itself computes is modelled step by step (the date range,   *)
(* the query, the loop over client.results, the records built, the sleep). *)
(* What it hands to its libraries is modelled as the environment:          *)
(*   - the hosted language model is opaque: when an agent calls its tool,  *)
(*     with which target_date, and how many entries its answer holds are   *)
(*     nondeterministic choices;                                           *)
(*   - the preprint API answers a paged query over a fixed corpus, or      *)
(*     fails;                                                              *)
(*   - the human reviewer accepts an answer or gives feedback.             *)
(***************************************************************************)
EXTENDS Naturals, Sequences, FiniteSets

\* ---------------------------------------------------------------- bounds

\* The corpus held by the API has at most MaxPapers papers.
MaxPapers == 3
\* Tool invocations per run that differ in argument or outcome (the agent's
\* iteration limit, scaled down).
MaxToolCalls == 2
\* Rounds of human feedback per task before the reviewer accepts.
MaxFeedback == 1
\* Client(page_size=100) of src/app.py:73, scaled down so that a result set
\* of a few papers spans several pages.
page_size == 2

\* ------------------------------------------------------ program constants

\* "top 10" of the prompts (goal, description, expected_output).
Top == 10

AI_CATEGORIES == <<"cs.CL">>

NoFile == "<none>"

researcher == [role |-> "Senior AI Researcher", tools |-> {"fetch_arxiv_papers"}]

frontend_engineer_with_tool ==
    [role |-> "Senior Frontend Engineer", tools |-> {"fetch_arxiv_papers"}]

frontend_engineer == [role |-> "Senior Frontend Engineer", tools |-> {}]

research_task_with_output_file ==
    [name |-> "research_task", agent |-> researcher, human_input |-> TRUE,
     output_file |-> "./top_papers.md"]

research_task ==
    [name |-> "research_task", agent |-> researcher, human_input |-> TRUE,
     output_file |-> NoFile]

reporting_task_without_human_input ==
    [name |-> "reporting_task", agent |-> frontend_engineer, human_input |-> FALSE,
     output_file |-> "./ai_research_report.html"]

reporting_task ==
    [name |-> "reporting_task", agent |-> frontend_engineer, human_input |-> TRUE,
     output_file |-> "./ai_research_report.html"]

\* Crew(tasks = [research_task, reporting_task]), sequential process.
tasks == <<research_task, reporting_task>>

\* ------------------------------------------------------------ the API side

\* Dates are day numbers (a day number stands for a YYYY-MM-DD): the days of
\* the papers of Universe below.
Days == {0, 1, 2}

\* Every paper the API may hold, newest first (sort_by = SubmittedDate,
\* descending): its category and submission time (day, HHMM).
Universe ==
    << [cat |-> "cs.CL", day |-> 2, hhmm |-> 1],
       [cat |-> "cs.CL", day |-> 2, hhmm |-> 0],
       [cat |-> "cs.CL", day |-> 1, hhmm |-> 2359],
       [cat |-> "cs.AI", day |-> 1, hhmm |-> 1200],
       [cat |-> "cs.CL", day |-> 1, hhmm |-> 1200],
       [cat |-> "cs.CL", day |-> 1, hhmm |-> 0],
       [cat |-> "cs.CL", day |-> 0, hhmm |-> 2359] >>

\* The arxiv.Result of paper i: the fields _run reads and two it does not.
Result(i) ==
    [entry_id         |-> <<"http://arxiv.org/abs", i>>,
     title            |-> <<"title", i>>,
     authors          |-> << [name |-> <<"author", i, 1>>], [name |-> <<"author", i, 2>>] >>,
     summary          |-> <<"summary", i>>,
     published        |-> [day |-> Universe[i].day, hhmm |-> Universe[i].hhmm],
     updated          |-> [day |-> Universe[i].day, hhmm |-> Universe[i].hhmm],
     primary_category |-> Universe[i].cat]

\* strftime('%Y%m%d%H%M'): the digits of the day followed by HHMM, which
\* orders as the number day * 10000 + HHMM.
Strftime(day, hhmm) == day * 10000 + hhmm

\* target_date is a date: its hour and minute are 00:00.
start_date(d) == Strftime(d, 0)

end_date(d) == Strftime(d + 1, 0)

Min(a, b) == IF a <= b THEN a ELSE b

\* ------------------------------------------------------------------ state

VARIABLES
    date,               \* crew_inputs["date"]
    corpus,             \* the papers the API holds: indices of Universe
    pc,                 \* where the single thread of the run is
    task,               \* index in tasks of the task being executed (0: none yet)
    prompts,            \* per task, the date interpolated for {date}
    target_date,        \* _run: its argument
    cat,                \* _run: index in AI_CATEGORIES of the loop at line 79
    offset,             \* client.results: results of this search consumed so far
    page,               \* client.results: results of the current page not yet yielded
    category_papers,    \* _run: line 91
    all_papers,         \* _run: line 77
    requests,           \* page requests of the current invocation
    sleeps,             \* time.sleep(3) calls of the current invocation
    sleptSinceRequest,  \* a time.sleep(3) has run since the last page request
    toolLog,            \* the finished invocations of _run: argument and outcome
    output,             \* per task, the number of paper entries of its latest answer
    feedback,           \* rounds of human feedback given on the current task
    accepted,           \* tasks whose answer the reviewer accepted
    completed,          \* tasks that completed
    disk                \* files written: [path, entries]

vars == << date, corpus, pc, task, prompts, target_date, cat, offset, page,
           category_papers, all_papers, requests, sleeps, sleptSinceRequest,
           toolLog, output, feedback, accepted, completed, disk >>

locals == << target_date, cat, offset, page, category_papers, all_papers,
             requests, sleeps, sleptSinceRequest >>

crew == << task, prompts, output, feedback, accepted, completed, disk >>

\* The query "cat:<category> AND submittedDate:[lo TO hi]": the range is
\* inclusive at both ends; the results come newest first.
Matches(i, category, lo, hi) ==
    /\ i \in corpus
    /\ Universe[i].cat = category
    /\ lo <= Strftime(Universe[i].day, Universe[i].hhmm)
    /\ Strftime(Universe[i].day, Universe[i].hhmm) <= hi

RECURSIVE Filter(_, _, _, _)
Filter(i, category, lo, hi) ==
    IF i > Len(Universe) THEN << >>
    ELSE (IF Matches(i, category, lo, hi) THEN << Result(i) >> ELSE << >>)
         \o Filter(i + 1, category, lo, hi)

\* What client.results(search) yields for a category and a target date.
SearchResults(category, d) == Filter(1, category, start_date(d), end_date(d))

\* The dictionary built at lines 93-99.
PaperDict(result) ==
    [title     |-> result.title,
     authors   |-> [k \in DOMAIN result.authors |-> result.authors[k].name],
     summary   |-> result.summary,
     published |-> result.published,
     url       |-> result.entry_id]

\* The numbers of entries an answer of the hosted model may hold.
EntryCounts == {0, Top, Top + 1}

Init ==
    /\ date \in Days
    /\ corpus \in {c \in SUBSET (1 .. Len(Universe)) : Cardinality(c) <= MaxPapers}
    /\ pc = "start"
    /\ task = 0
    /\ prompts = << >>
    /\ target_date = 0
    /\ cat = 1
    /\ offset = 0
    /\ page = << >>
    /\ category_papers = << >>
    /\ all_papers = << >>
    /\ requests = 0
    /\ sleeps = 0
    /\ sleptSinceRequest = FALSE
    /\ toolLog = {}
    /\ output = [t \in 1 .. Len(tasks) |-> 0]
    /\ feedback = 0
    /\ accepted = {}
    /\ completed = {}
    /\ disk = {}

\* The locals of an invocation of _run that has ended.
LocalsGone ==
    /\ target_date' = 0
    /\ cat' = 1
    /\ offset' = 0
    /\ page' = << >>
    /\ category_papers' = << >>
    /\ all_papers' = << >>
    /\ requests' = 0
    /\ sleeps' = 0
    /\ sleptSinceRequest' = FALSE

\* ------------------------------------------------------------ the crew

Kickoff_NoInterpolation ==
    /\ pc = "start"
    /\ pc' = "agent"
    /\ task' = 1
    /\ prompts' = [t \in 1 .. Len(tasks) |-> 0]
    /\ UNCHANGED << date, corpus, locals, toolLog, output, feedback, accepted,
                    completed, disk >>

\* arxiv_research_crew.kickoff(inputs = crew_inputs): {date} of the agents'
\* and tasks' texts is replaced by the input, and the first task starts.
Kickoff ==
    /\ pc = "start"
    /\ pc' = "agent"
    /\ task' = 1
    /\ prompts' = [t \in 1 .. Len(tasks) |-> date]
    /\ UNCHANGED << date, corpus, locals, toolLog, output, feedback, accepted,
                    completed, disk >>

\* The agent of the current task calls fetch_arxiv_papers: only an agent that
\* has the tool can, and the hosted model chooses the argument, which
\* args_schema only requires to be a date. _run starts: lines 62-77, and the
\* first pass of the loop at line 79 up to line 91.
AgentCallsTool ==
    /\ pc = "agent"
    /\ "fetch_arxiv_papers" \in tasks[task].agent.tools
    /\ Cardinality(toolLog) < MaxToolCalls
    /\ \E d \in Days : target_date' = d
    /\ cat' = 1
    /\ offset' = 0
    /\ page' = << >>
    /\ category_papers' = << >>
    /\ all_papers' = << >>
    /\ requests' = 0
    /\ sleeps' = 0
    /\ sleptSinceRequest' = FALSE
    /\ pc' = "request"
    /\ UNCHANGED << date, corpus, toolLog, crew >>

\* A task completes with the answer `n`: its output_file, when it has one, is
\* written, and the next task starts or the run ends.
Finish(n) ==
    /\ completed' = completed \cup {task}
    /\ feedback' = 0
    /\ disk' = IF tasks[task].output_file = NoFile THEN disk
               ELSE {f \in disk : f.path # tasks[task].output_file}
                    \cup {[path |-> tasks[task].output_file, entries |-> n]}
    /\ IF task = Len(tasks)
       THEN pc' = "done" /\ task' = task
       ELSE pc' = "agent" /\ task' = task + 1

\* The agent gives its final answer: the hosted model decides how many paper
\* entries it holds. With human_input the reviewer is asked next.
AgentAnswers ==
    /\ pc = "agent"
    /\ \E n \in EntryCounts :
         /\ output' = [output EXCEPT ![task] = n]
         /\ IF tasks[task].human_input
            THEN /\ pc' = "human"
                 /\ UNCHANGED << task, completed, disk, feedback >>
            ELSE Finish(n)
    /\ UNCHANGED << date, corpus, prompts, locals, toolLog, accepted >>

HumanAccepts_WritesRanking ==
    /\ pc = "human"
    /\ accepted' = accepted \cup {task}
    /\ Finish(output[1])
    /\ UNCHANGED << date, corpus, prompts, locals, toolLog, output >>

\* The reviewer accepts the answer: the task completes.
HumanAccepts ==
    /\ pc = "human"
    /\ accepted' = accepted \cup {task}
    /\ Finish(output[task])
    /\ UNCHANGED << date, corpus, prompts, locals, toolLog, output >>

\* The reviewer gives feedback: the agent works on its answer again.
HumanFeedback ==
    /\ pc = "human"
    /\ feedback < MaxFeedback
    /\ feedback' = feedback + 1
    /\ pc' = "agent"
    /\ UNCHANGED << date, corpus, prompts, locals, toolLog, task, output,
                    accepted, completed, disk >>

\* ---------------------------------------------- FetchArxivPapersTool._run

\* client.results asks the API for the next page of the search of the current
\* category (line 92, on entering the loop and whenever a page is used up) and
\* gets it. An empty first page ends the iteration with no result.
RequestPage ==
    /\ pc = "request"
    /\ LET results == SearchResults(AI_CATEGORIES[cat], target_date)
           got == SubSeq(results, offset + 1, Min(offset + page_size, Len(results)))
       IN  /\ page' = got
           /\ pc' = IF got = << >> THEN "category_done" ELSE "iterate"
    /\ requests' = requests + 1
    /\ sleptSinceRequest' = FALSE
    /\ UNCHANGED << date, corpus, target_date, cat, offset, category_papers,
                    all_papers, sleeps, toolLog, crew >>

RequestFails_ReturnsPartial ==
    /\ pc = "request"
    /\ toolLog' = toolLog \cup
                         {[target_date |-> target_date, outcome |-> "network_error",
                          papers |-> all_papers \o category_papers,
                          requests |-> requests + 1, sleeps |-> sleeps]}
    /\ LocalsGone
    /\ pc' = "agent"
    /\ UNCHANGED << date, corpus, crew >>

\* The request fails (a network failure): client.results raises, and nothing
\* in _run catches it (lines 79-107 hold no try): the invocation ends with the
\* exception, category_papers and all_papers are lost. _run is called as a
\* tool of an agent (line 126): the agent framework's tool call hands the
\* agent the error in place of a result, and the agent goes on (it may call
\* the tool again or give its answer).
RequestFails ==
    /\ pc = "request"
    /\ toolLog' = toolLog \cup
                         {[target_date |-> target_date, outcome |-> "network_error",
                          papers |-> << >>,
                          requests |-> requests + 1, sleeps |-> sleeps]}
    /\ LocalsGone
    /\ pc' = "agent"
    /\ UNCHANGED << date, corpus, crew >>

Iterate_Prepends ==
    /\ pc = "iterate"
    /\ page # << >>
    /\ category_papers' = << PaperDict(Head(page)) >> \o category_papers
    /\ sleeps' = sleeps + 1
    /\ sleptSinceRequest' = TRUE
    /\ page' = Tail(page)
    /\ offset' = offset + 1
    /\ pc' = IF Tail(page) # << >> THEN "iterate"
             ELSE IF offset + 1 >= Len(SearchResults(AI_CATEGORIES[cat], target_date))
                  THEN "category_done"
                  ELSE "request"
    /\ UNCHANGED << date, corpus, target_date, cat, all_papers, requests,
                    toolLog, crew >>

\* One pass of the loop at line 92: the next result of the page is turned into
\* a dictionary and appended (lines 93-99), then time.sleep(3) (line 102).
\* After the last result of a page the iterator ends when every result of the
\* search has been yielded, and asks for the next page otherwise.
Iterate ==
    /\ pc = "iterate"
    /\ page # << >>
    /\ category_papers' = Append(category_papers, PaperDict(Head(page)))
    /\ sleeps' = sleeps + 1
    /\ sleptSinceRequest' = TRUE
    /\ page' = Tail(page)
    /\ offset' = offset + 1
    /\ pc' = IF Tail(page) # << >> THEN "iterate"
             ELSE IF offset + 1 >= Len(SearchResults(AI_CATEGORIES[cat], target_date))
                  THEN "category_done"
                  ELSE "request"
    /\ UNCHANGED << date, corpus, target_date, cat, all_papers, requests,
                    toolLog, crew >>

\* Lines 104-105, and the next pass of the loop at line 79 if there is one.
CategoryDone ==
    /\ pc = "category_done"
    /\ all_papers' = all_papers \o category_papers
    /\ IF cat < Len(AI_CATEGORIES)
       THEN /\ cat' = cat + 1
            /\ category_papers' = << >>
            /\ offset' = 0
            /\ page' = << >>
            /\ pc' = "request"
       ELSE /\ pc' = "return"
            /\ UNCHANGED << cat, category_papers, offset, page >>
    /\ UNCHANGED << date, corpus, target_date, requests, sleeps,
                    sleptSinceRequest, toolLog, crew >>

Return_RaisesOnEmpty ==
    /\ pc = "return"
    /\ toolLog' = toolLog \cup
                         {[target_date |-> target_date,
                          outcome |-> IF all_papers = << >> THEN "empty_error"
                                      ELSE "returned",
                          papers |-> all_papers,
                          requests |-> requests, sleeps |-> sleeps]}
    /\ LocalsGone
    /\ pc' = "agent"
    /\ UNCHANGED << date, corpus, crew >>

\* Line 107: _run returns all_papers to the agent that called the tool.
Return ==
    /\ pc = "return"
    /\ toolLog' = toolLog \cup
                         {[target_date |-> target_date, outcome |-> "returned",
                          papers |-> all_papers,
                          requests |-> requests, sleeps |-> sleeps]}
    /\ LocalsGone
    /\ pc' = "agent"
    /\ UNCHANGED << date, corpus, crew >>

\* ---------------------------------------------------------- specification

Next ==
    \/ Kickoff
    \/ AgentCallsTool
    \/ RequestPage
    \/ RequestFails
    \/ Iterate
    \/ CategoryDone
    \/ Return
    \/ AgentAnswers
    \/ HumanAccepts
    \/ HumanFeedback

Spec == Init /\ [][Next]_vars

\* ------------------------------------------------------------ the claims

\* An invocation of _run is in progress.
InRun == pc \in {"request", "iterate", "category_done", "return"}

RECURSIVE Yielded(_, _)
\* Everything client.results yields during an invocation for the date d, from
\* the category of index c on: category by category in AI_CATEGORIES order.
Yielded(c, d) ==
    IF c > Len(AI_CATEGORIES) THEN << >>
    ELSE SearchResults(AI_CATEGORIES[c], d) \o Yielded(c + 1, d)

Range(seq) == {seq[k] : k \in DOMAIN seq}

\* C1, as stated: the three steps are strictly ordered, every invocation of
\* _run has returned before the ranking step (research_task) begins, and no
\* invocation runs during or after ranking.
C1_FetchBeforeRanking ==
    /\ InRun => task = 0
    /\ task = 2 => 1 \in completed

\* C1, amended: every invocation of _run runs inside the ranking step (after
\* research_task has begun and before it completes), the ranking step has
\* completed before the rendering step begins, and no invocation runs during
\* or after the rendering step.
C1_FetchInsideRanking ==
    /\ InRun => task = 1 /\ 1 \notin completed
    /\ task = 2 => 1 \in completed /\ ~InRun
    /\ 2 \in completed => 1 \in completed /\ pc = "done"
    /\ pc = "done" => completed = {1, 2}

C1_Witness == InRun /\ task = 1 /\ sleeps > 0 /\ Cardinality(toolLog) = 1

\* The API returned an empty result set to the invocation of log entry e.
ReturnedEmptySet(e) ==
    /\ Yielded(1, e.target_date) = << >>
    /\ e.outcome # "network_error"

\* C2, as stated: when the API returns an empty result set, _run does not
\* return normally and neither the ranking nor the rendering step produces an
\* output.
C2_EmptyIsFailure ==
    \A e \in toolLog :
        ReturnedEmptySet(e) =>
            /\ e.outcome # "returned"
            /\ completed = {}

\* C2, amended: when the API returns an empty result set, _run returns
\* normally, with the empty list, without a pass of the loop at line 92; the
\* run goes on to the ranking and rendering steps.
C2_EmptyIsReturned ==
    \A e \in toolLog :
        ReturnedEmptySet(e) =>
            /\ e.outcome = "returned"
            /\ e.papers = << >>
            /\ e.sleeps = 0

C2_Witness ==
    /\ pc = "done"
    /\ disk # {}
    /\ \E e \in toolLog :
         ReturnedEmptySet(e) /\ e.outcome = "returned"

C4_OnlyTheReport ==
    /\ \A f \in disk : f.path = "./ai_research_report.html"
    /\ disk # {} => completed = {1, 2}
    /\ (task <= 1 \/ InRun) => disk = {}
    /\ pc = "done" => Cardinality(disk) = 1

C4_Witness ==
    /\ pc = "done"
    /\ disk = {[path |-> "./ai_research_report.html", entries |-> Top]}
    /\ \E e \in toolLog : Len(e.papers) > 0

\* C5, as stated: whatever the date and the number of papers fetched, the
\* output file of a completed run holds at most 10 paper entries.
C5_AtMostTen ==
    pc = "done" => \A f \in disk : f.entries <= Top

\* C5, amended: the output file of a completed run holds the entries of the
\* rendering step's accepted answer, so at most 10 exactly when the hosted
\* model's answer holds at most 10; the code states 10 in its prompts only.
C5_FileIsRenderingAnswer ==
    /\ \A f \in disk : f.entries = output[2]
    /\ pc = "done" => ((\A f \in disk : f.entries <= Top) <=> output[2] <= Top)

C5_Witness ==
    /\ pc = "done"
    /\ output[1] <= Top
    /\ \E f \in disk : f.entries > Top

\* C6: _run returns all and only the papers of the selected categories that
\* were submitted on the target date, 00:00:00 to 23:59:59: none of another
\* day, in particular none of 00:00 of the following day, and none missing.
C6_ExactlyTheTargetDay ==
    \A e \in toolLog :
        e.outcome = "returned" =>
            Range(e.papers) =
                {PaperDict(Result(i)) : i \in
                    {j \in corpus : /\ Universe[j].cat \in Range(AI_CATEGORIES)
                                    /\ Universe[j].day = e.target_date}}

\* C7: _run returns one record per result the API yielded, in the order
\* yielded, each with exactly the fields title, authors, summary, published
\* and url, copied from that result.
C7_OneRecordPerResult ==
    \A e \in toolLog :
        e.outcome = "returned" =>
            LET got == e.papers
                results == Yielded(1, e.target_date)
            IN  /\ Len(got) = Len(results)
                /\ \A j \in DOMAIN got :
                     /\ DOMAIN got[j] = {"title", "authors", "summary", "published", "url"}
                     /\ got[j].title = results[j].title
                     /\ Len(got[j].authors) = Len(results[j].authors)
                     /\ \A a \in DOMAIN got[j].authors :
                          got[j].authors[a] = results[j].authors[a].name
                     /\ got[j].summary = results[j].summary
                     /\ got[j].published = results[j].published
                     /\ got[j].url = results[j].entry_id

C7_Witness ==
    \E e \in toolLog :
        /\ e.outcome = "returned"
        /\ e.requests > 1
        /\ Len(e.papers) > page_size

C9_DelayPerRequest ==
    /\ (pc = "request" /\ requests >= 1) => sleptSinceRequest
    /\ \A ej, ek \in toolLog :
         (/\ ej.outcome = "returned"
          /\ ek.outcome = "returned"
          /\ ej.requests = ek.requests)
         => ej.sleeps = ek.sleeps

\* C10: both tasks are gated on human review: the rendering step does not
\* begin until the reviewer has accepted the ranking step's answer, the report
\* file is not written until the reviewer has accepted the rendering step's
\* answer, and a run completes only with both acceptances (so never, if the
\* reviewer never responds: only the reviewer's steps leave pc = "human").
C10_HumanGate ==
    /\ task = 2 => 1 \in accepted
    /\ disk # {} => 2 \in accepted
    /\ completed \subseteq accepted
    /\ pc = "done" => accepted = {1, 2}

C10_Witness ==
    /\ pc = "done"
    /\ accepted = {1, 2}
    /\ disk # {}

====
